---- MODULE Spec2Model ----
(***************************************************************************)
(* Model of the mock-test application: the test-taking screen              *)
(* (src/unnamed/part_000), the data-access layer (src/unnamed/part_002)    *)
(* and the backend relations they talk to.                                 *)
(*                                                                         *)
(* Optional values (number | null, TestSession | null, string | null) are  *)
(* sequences of length at most one: <<>> is null, <<v>> is the value v.    *)
(***************************************************************************)
EXTENDS Integers, Sequences, FiniteSets, TLC

VARIABLES
    language,             \* LanguageContext value seen by the test screen
    questions,            \* useState<Question[]>
    currentQuestionIndex, \* useState(0)
    answers,              \* useState<(number | null)[]>
    loading,              \* useState(true)
    testSession,          \* useState<TestSession | null>
    crashed,              \* a render threw: the error is uncaught and ends the app
    pendingLoads,         \* loadQuestions calls awaiting getQuestionsByLanguage
    pendingInserts,       \* handleSubmit calls awaiting the test_sessions insert
    insertCount,          \* session id -> insert requests sent to test_sessions
    test_sessions,        \* rows of the test_sessions relation
    navStack,             \* results screens pushed above the test screen (top first)
    now,                  \* Date.now()
    nLoads,               \* loadQuestions calls started so far
    nSubmits,             \* handleSubmit calls started so far
    questions_table,      \* rows of the questions relation
    images_table,         \* rows of the images relation
    dalCall,              \* the last data-access call: operation and argument
    dalRequest,           \* the request that call sent to the backend, if any
    dalReply,             \* the backend's reply to that request, if any
    dalResult,            \* what the call returned, or that it threw
    urlCall,              \* the last URL validation call: function and URL
    urlRequests,          \* the network requests that call made, in order
    urlResult,            \* what the call returned
    resultsMounted,       \* a ResultsScreen is mounted
    params,               \* useLocalSearchParams() of the results screen
    testHistory,          \* useState<TestSession[]>([]) of the results screen
    historyLoading,       \* useState(true) of the results screen
    historyRequest,       \* loadTestHistory awaiting its query: the language it asked for
    storage,              \* AsyncStorage value under 'selectedLanguage'
    isMounted,            \* isMountedRef.current of the LanguageProvider
    getItemCall,          \* loadLanguage's AsyncStorage.getItem: "pending", "resolved", "rejected"
    getItemValue,         \* the value the store has read for that getItem, once it has
    pendingSetItem,       \* setLanguage calls awaiting AsyncStorage.setItem
    setItemDone,          \* setLanguage calls whose setItem has resolved or rejected
    setItemLog,           \* values passed to AsyncStorage.setItem so far
    nSetLanguage,         \* setLanguage calls started so far
    questionText,         \* useState('') of the question form
    options,              \* useState(['', '', '', '']) of the question form
    correctAnswer,        \* useState(0) of the question form
    imageUrl,             \* useState('') of the question form
    formLoading,          \* useState(false) `loading` of the question form
    formRequest,          \* the questionData of the insertQuestion call awaited
    imageMounted,         \* a QuestionImage is mounted
    imageUrlProp,         \* its imageUrl prop
    imageLoading,         \* useState(true) `loading` of QuestionImage
    imageError,           \* useState(false) `error` of QuestionImage
    imageDimensions,      \* useState({ width: 0, height: 0 }) of QuestionImage
    imageElement,         \* the rendered Image element: its uri and load phase
    imageFailed           \* the uri of the last load that ended in onError

testVars == <<language, questions, currentQuestionIndex, answers, loading,
              testSession, crashed, pendingLoads, pendingInserts, insertCount,
              test_sessions, navStack, now, nLoads, nSubmits>>

dalVars == <<questions_table, images_table, dalCall, dalRequest, dalReply, dalResult>>

urlVars == <<urlCall, urlRequests, urlResult>>

resultsVars == <<resultsMounted, params, testHistory, historyLoading, historyRequest>>

providerVars == <<storage, isMounted, getItemCall, getItemValue, pendingSetItem,
                  setItemDone, setItemLog, nSetLanguage>>

\* the test screen's own state: testVars without the provider's language and
\* the backend's test_sessions
testScreenVars == <<questions, currentQuestionIndex, answers, loading, testSession,
                    crashed, pendingLoads, pendingInserts, insertCount, navStack,
                    now, nLoads, nSubmits>>

\* (the error text under the URL field, the alerts, category and difficulty
\* are shown or sent as they are and are not part of the state kept here)
formVars == <<questionText, options, correctAnswer, imageUrl, formLoading,
              formRequest>>

imageVars == <<imageMounted, imageUrlProp, imageLoading, imageError,
               imageDimensions, imageElement, imageFailed>>

otherThanTest == <<dalVars, urlVars, resultsVars, providerVars, formVars, imageVars>>
otherThanDal == <<testVars, urlVars, resultsVars, providerVars, formVars, imageVars>>

vars == <<testVars, dalVars, urlVars, resultsVars, providerVars, formVars, imageVars>>

----------------------------------------------------------------------------
(* Bounds of the model *)

MaxRows == 1         \* most rows a question fetch returns in the model
MaxLoads == 2        \* loadQuestions calls per test screen
MaxSubmits == 2      \* submit presses per test screen
MaxTime == 1         \* clock values 0..MaxTime
MaxOptionInput == 1  \* the user presses options 1..MaxOptionInput
MaxStoredRows == 2   \* rows the questions and the images relation hold at most

(* Program constants *)

FetchLimit == 10   \* getQuestionsByLanguage(language, 10)

Languages == {"en", "hi", "tel"}

None == <<>>
Some(v) == <<v>>

\* Every question of the seed data and of the sample set has four options.
FourOptions == <<"A", "B", "C", "D">>

\* correct_answer values of the seeded rows
SeedCorrectAnswers == {1, 3}

Min(a, b) == IF a < b THEN a ELSE b

----------------------------------------------------------------------------
(* Number <-> string conversions used for ids and route params *)

toString(n) == ToString(n)

MaxParsed == 12
parseInt(s) ==
    IF \E n \in 0..MaxParsed : ToString(n) = s
    THEN CHOOSE n \in 0..MaxParsed : ToString(n) = s
    ELSE -1

----------------------------------------------------------------------------
(* Backend replies.  A supabase query resolves to {data, error}, or the    *)
(* awaited call rejects.                                                   *)
(*   kind = "data"  : error is null, data holds the reply                  *)
(*   kind = "null"  : error is null and data is null                       *)
(*   kind = "error" : error = {message}                                    *)
(*   kind = "throw" : the await rejects with an Error(message)             *)

DataReply(d) == [kind |-> "data", data |-> d, message |-> ""]
NullReply == [kind |-> "null", data |-> <<>>, message |-> ""]
ErrorReply == [kind |-> "error", data |-> <<>>, message |-> "backend error"]
ThrowReply == [kind |-> "throw", data |-> <<>>, message |-> "Network request failed"]
RejectReply == [kind |-> "reject", data |-> <<>>, message |-> ""]

(* The result of running a function body: it returns a value or throws.    *)
(* A thrown value is an Error with a message, or some other value.         *)
Return(v) == [thrown |-> FALSE, value |-> v, isError |-> FALSE, message |-> ""]
Throw(m) == [thrown |-> TRUE, value |-> <<>>, isError |-> TRUE, message |-> m]
ThrowValue == [thrown |-> TRUE, value |-> <<>>, isError |-> FALSE, message |-> ""]

\* what awaiting a reply does inside a function body: the reply, or a throw
Await(reply) ==
    IF reply.kind = "throw" THEN Throw(reply.message)
    ELSE IF reply.kind = "reject" THEN ThrowValue
    ELSE Return(reply)

(* The data field of an envelope is null, a row or a list of rows; null is  *)
(* kept apart from the empty list.                                         *)
Null == [isNull |-> TRUE, v |-> <<>>]
Val(x) == [isNull |-> FALSE, v |-> x]

(* The uniform envelope *)
Success(d, m) == [success |-> TRUE, data |-> d, error |-> None, message |-> Some(m)]
Failure(d, e) == [success |-> FALSE, data |-> d, error |-> Some(e), message |-> None]

\* mutant: the catch block is missing, a throw reaches the caller
CatchAllRethrows(body, empty) == body

(* catch (error) { return {success: false, data: <empty>,                  *)
(*   error: error instanceof Error ? error.message : 'Unknown error occurred'} } *)
CatchAll(body, empty) ==
    IF body.thrown
    THEN Return(Failure(empty, IF body.isError THEN body.message
                               ELSE "Unknown error occurred"))
    ELSE body

----------------------------------------------------------------------------
(* questions relation as seen by a fetch *)

BackendId(i) == "q" \o ToString(i)

Row(i, ca, lang) ==
    [id |-> BackendId(i), correct_answer |-> ca, language |-> lang,
     options |-> FourOptions]

\* the row lists .eq('language', lang).limit(limit) can return
RowLists(lang, limit) ==
    UNION { { [i \in 1..n |-> Row(i, f[i], lang)] : f \in [1..n -> SeedCorrectAnswers] }
            : n \in 0..Min(limit, MaxRows) }

QuestionReplies(lang, limit) ==
    { DataReply(rows) : rows \in RowLists(lang, limit) }
        \cup {NullReply, ErrorReply, ThrowReply, RejectReply}

getQuestionsByLanguageBody(lang, limit, reply) ==
    IF Await(reply).thrown THEN Await(reply)
    ELSE IF reply.kind = "error"
         THEN Throw("Failed to fetch questions: " \o reply.message)
    ELSE Return(Success(Val(IF reply.kind = "null" THEN <<>> ELSE reply.data),
                        "Found questions"))

getQuestionsByLanguage(lang, limit, reply) ==
    CatchAll(getQuestionsByLanguageBody(lang, limit, reply), Val(<<>>))

----------------------------------------------------------------------------
(* Test screen (TestScreen) *)

\* questions[currentQuestionIndex] is defined and the main view is shown
Rendered ==
    /\ ~crashed
    /\ ~loading
    /\ Len(questions) > 0
    /\ currentQuestionIndex < Len(questions)

\* the test screen is the visible screen
TestVisible == navStack = <<>>

\* mutant: every sample question is flagged "en" whatever the language
sampleQuestionsEnglishOnly(lang) ==
    << [id |-> "1", correct_answer |-> 1, language |-> "en", options |-> FourOptions],
       [id |-> "2", correct_answer |-> 1, language |-> "en", options |-> FourOptions],
       [id |-> "3", correct_answer |-> 2, language |-> "en", options |-> FourOptions] >>

\* the three built-in questions of loadSampleQuestions
sampleQuestions(lang) ==
    << [id |-> "1", correct_answer |-> 1, language |-> lang, options |-> FourOptions],
       [id |-> "2", correct_answer |-> 1, language |-> lang, options |-> FourOptions],
       [id |-> "3", correct_answer |-> 2, language |-> lang, options |-> FourOptions] >>

\* new Array(n).fill(null)
filledNull(n) == [i \in 1..n |-> None]

\* the TestSession object built for a question list
newSession(lang, qs, t) ==
    [id |-> toString(t),
     language |-> lang,
     questions |-> [i \in 1..Len(qs) |-> qs[i].id],
     answers |-> filledNull(Len(qs)),
     score |-> 0,
     total_questions |-> Len(qs),
     completed_at |-> None,
     created_at |-> t]

\* mutant: an empty result is installed instead of the sample set
loadedQuestionsKeepsEmpty(lang, result) ==
    IF ~result.success THEN sampleQuestions(lang)
    ELSE IF ~result.data.isNull THEN result.data.v
    ELSE sampleQuestions(lang)

\* the question list loadQuestions installs for an envelope: the fetched
\* rows, or the sample set when the fetch failed or returned no row
loadedQuestions(lang, result) ==
    IF ~result.success THEN sampleQuestions(lang)
    ELSE IF ~result.data.isNull /\ Len(result.data.v) > 0 THEN result.data.v
    ELSE sampleQuestions(lang)

\* render after a state update: questions[currentQuestionIndex].question_text
\* throws when the index is past the end of a non-empty list.  Nothing
\* catches a render error, so no handler or continuation runs after it.
renderThrows(isLoading, qs, idx) ==
    ~isLoading /\ Len(qs) > 0 /\ idx >= Len(qs)

\* Date.now() / new Date(): the clock never goes back.  What a later
\* reading can be: the same millisecond or a later one.
ClockReadings == now..Min(now + 1, MaxTime)

\* useEffect(() => { loadQuestions() }, [language]) : setLoading(true) and
\* the fetch is sent; the closure keeps the language of that render
StartLoad(lang) ==
    /\ loading' = TRUE
    /\ pendingLoads' = pendingLoads \cup {[n |-> nLoads + 1, language |-> lang]}
    /\ nLoads' = nLoads + 1

\* the context's language changes while the test screen is mounted
LanguageChanged(lang) ==
    /\ ~crashed
    /\ lang # language
    /\ nLoads < MaxLoads
    /\ language' = lang
    /\ StartLoad(lang)
    /\ UNCHANGED otherThanTest
    /\ UNCHANGED <<questions, currentQuestionIndex, answers, testSession, crashed,
                   pendingInserts, insertCount, test_sessions, navStack, now, nSubmits>>

\* the rest of loadQuestions, run at time t when the fetch of load p is
\* answered by reply
LoadResponse(p, reply, t) ==
    /\ p \in pendingLoads
    /\ reply \in QuestionReplies(p.language, FetchLimit)
    /\ t \in ClockReadings
    /\ ~crashed
    /\ now' = t
    /\ pendingLoads' = pendingLoads \ {p}
    /\ LET call == getQuestionsByLanguage(p.language, FetchLimit, reply)
           qs == IF call.thrown THEN sampleQuestions(p.language)
                 ELSE loadedQuestions(p.language, call.value)
       IN /\ questions' = qs
          /\ answers' = filledNull(Len(qs))
          /\ testSession' = Some(newSession(p.language, qs, t))
          /\ loading' = FALSE
          /\ crashed' = renderThrows(FALSE, qs, currentQuestionIndex)
    /\ UNCHANGED otherThanTest
    /\ UNCHANGED <<language, currentQuestionIndex, pendingInserts, insertCount,
                   test_sessions, navStack, nLoads, nSubmits>>

\* mutant: the selected option is pushed onto the array
handleAnswerSelectAppends(ans, idx, optionIndex) == Append(ans, Some(optionIndex))

\* mutant: the selected option is written at every position
handleAnswerSelectFillsAll(ans, idx, optionIndex) ==
    [i \in 1..Len(ans) |-> Some(optionIndex)]

\* const newAnswers = [...answers]; newAnswers[currentQuestionIndex] = optionIndex
\* (an index past the end lengthens the array, the gap reads as unset)
handleAnswerSelect(ans, idx, optionIndex) ==
    [i \in 1..(IF idx + 1 > Len(ans) THEN idx + 1 ELSE Len(ans)) |->
        IF i = idx + 1 THEN Some(optionIndex)
        ELSE IF i <= Len(ans) THEN ans[i] ELSE None]

HandleAnswerSelect(optionIndex) ==
    /\ Rendered /\ TestVisible
    /\ optionIndex \in 1..MaxOptionInput
    /\ optionIndex < Len(questions[currentQuestionIndex + 1].options)
    /\ answers' = handleAnswerSelect(answers, currentQuestionIndex, optionIndex)
    /\ UNCHANGED otherThanTest
    /\ UNCHANGED <<language, questions, currentQuestionIndex, loading, testSession,
                   crashed, pendingLoads, pendingInserts, insertCount, test_sessions,
                   navStack, now, nLoads, nSubmits>>

\* mutant: next without its bound check
handleNextUnguarded(idx, len) == idx + 1

\* if (currentQuestionIndex < questions.length - 1) setCurrentQuestionIndex(+1)
handleNext(idx, len) == IF idx < len - 1 THEN idx + 1 ELSE idx

\* if (currentQuestionIndex > 0) setCurrentQuestionIndex(-1)
handlePrevious(idx) == IF idx > 0 THEN idx - 1 ELSE idx

\* mutant: the submit button is shown at every position
submitOfferedAlways(idx, len) == TRUE

\* the forward button is the submit button at the last position, next elsewhere
submitOffered(idx, len) == idx = len - 1
nextOffered(idx, len) == ~submitOffered(idx, len)

\* the previous button is disabled at position 0
previousEnabled(idx) == ~(idx = 0)

HandleNext ==
    /\ Rendered /\ TestVisible
    /\ nextOffered(currentQuestionIndex, Len(questions))
    /\ currentQuestionIndex' = handleNext(currentQuestionIndex, Len(questions))
    /\ UNCHANGED otherThanTest
    /\ UNCHANGED <<language, questions, answers, loading, testSession, crashed,
                   pendingLoads, pendingInserts, insertCount, test_sessions, navStack,
                   now, nLoads, nSubmits>>

HandlePrevious ==
    /\ Rendered /\ TestVisible
    /\ previousEnabled(currentQuestionIndex)
    /\ currentQuestionIndex' = handlePrevious(currentQuestionIndex)
    /\ UNCHANGED otherThanTest
    /\ UNCHANGED <<language, questions, answers, loading, testSession, crashed,
                   pendingLoads, pendingInserts, insertCount, test_sessions, navStack,
                   now, nLoads, nSubmits>>

\* mutant: every answered position counts as correct
RECURSIVE reduceScoreCountsAnswered(_, _, _, _)
reduceScoreCountsAnswered(ans, qs, index, total) ==
    IF index >= Len(ans) THEN total
    ELSE reduceScoreCountsAnswered(ans, qs, index + 1,
                                   IF ans[index + 1] # None THEN total + 1 ELSE total)

\* answers.reduce((total, answer, index) =>
\*     answer === questions[index].correct_answer ? total + 1 : total, 0)
RECURSIVE reduceScore(_, _, _, _)
reduceScore(ans, qs, index, total) ==
    IF index >= Len(ans) THEN total
    ELSE reduceScore(ans, qs, index + 1,
                     IF ans[index + 1] = Some(qs[index + 1].correct_answer)
                     THEN total + 1 ELSE total)

\* questions[index] is undefined for an answer past the end of the list
reduceThrows(ans, qs) == Len(ans) > Len(qs)

\* handleSubmit up to its await: the score, the completed session and the
\* insert request; a null session returns at once, a throwing reduce rejects
HandleSubmit ==
    /\ Rendered /\ TestVisible
    /\ submitOffered(currentQuestionIndex, Len(questions))
    /\ nSubmits < MaxSubmits
    /\ nSubmits' = nSubmits + 1
    /\ IF testSession = None \/ reduceThrows(answers, questions)
       THEN UNCHANGED <<pendingInserts, insertCount>>
       ELSE LET score == reduceScore(answers, questions, 0, 0)
                completedSession ==
                    [testSession[1] EXCEPT !.answers = answers,
                                           !.score = score,
                                           !.completed_at = Some(now)]
                id == completedSession.id
            IN /\ insertCount' =
                      IF id \in DOMAIN insertCount
                      THEN [insertCount EXCEPT ![id] = @ + 1]
                      ELSE insertCount @@ (id :> 1)
               /\ pendingInserts' = pendingInserts \cup
                      {[n |-> nSubmits + 1,
                        session |-> completedSession,
                        score |-> score,
                        total |-> Len(questions),
                        sessionId |-> testSession[1].id]}
    /\ UNCHANGED otherThanTest
    /\ UNCHANGED <<language, questions, currentQuestionIndex, answers, loading,
                   testSession, crashed, pendingLoads, test_sessions, navStack, now,
                   nLoads>>

\* outcomes of the awaited insert: the row is stored, the backend answers
\* with an error (the id is the primary key), or the await rejects
InsertOutcomes(session) ==
    (IF \E r \in test_sessions : r.id = session.id THEN {} ELSE {"ok"})
        \cup {"error", "throw"}

\* router.push({pathname: '/results', params: {score, total, sessionId}})
resultsParams(p) ==
    [score |-> toString(p.score), total |-> toString(p.total), sessionId |-> p.sessionId]

\* the rest of handleSubmit, run when the insert of p is answered
InsertResponse(p, outcome) ==
    /\ ~crashed
    /\ p \in pendingInserts
    /\ outcome \in InsertOutcomes(p.session)
    /\ pendingInserts' = pendingInserts \ {p}
    /\ test_sessions' = IF outcome = "ok" THEN test_sessions \cup {p.session}
                        ELSE test_sessions
    /\ navStack' = <<resultsParams(p)>> \o navStack
    /\ UNCHANGED otherThanTest
    /\ UNCHANGED <<language, questions, currentQuestionIndex, answers, loading,
                   testSession, crashed, pendingLoads, insertCount, now, nLoads,
                   nSubmits>>

\* the user leaves the top results screen and is back on the screen below it
Back ==
    /\ ~crashed
    /\ navStack # <<>>
    /\ navStack' = Tail(navStack)
    /\ UNCHANGED otherThanTest
    /\ UNCHANGED <<language, questions, currentQuestionIndex, answers, loading,
                   testSession, crashed, pendingLoads, pendingInserts, insertCount,
                   test_sessions, now, nLoads, nSubmits>>

\* the test screen right after mount, under the provider's initial language:
\* the effect has started the first load
InitTest ==
    /\ language = "en"
    /\ questions = <<>>
    /\ currentQuestionIndex = 0
    /\ answers = <<>>
    /\ loading = TRUE
    /\ testSession = None
    /\ crashed = FALSE
    /\ pendingLoads = {[n |-> 1, language |-> language]}
    /\ pendingInserts = {}
    /\ insertCount = <<>>
    /\ test_sessions = {}
    /\ navStack = <<>>
    /\ now = 0
    /\ nLoads = 1
    /\ nSubmits = 0

AnyLoadResponse ==
    \E p \in pendingLoads : \E reply \in QuestionReplies(p.language, FetchLimit) :
        \E t \in ClockReadings : LoadResponse(p, reply, t)

AnyInsertResponse ==
    \E p \in pendingInserts : \E outcome \in {"ok", "error", "throw"} :
        InsertResponse(p, outcome)

NextTest ==
    \/ \E lang \in Languages : LanguageChanged(lang)
    \/ AnyLoadResponse
    \/ \E optionIndex \in 1..MaxOptionInput : HandleAnswerSelect(optionIndex)
    \/ HandleNext
    \/ HandlePrevious
    \/ HandleSubmit
    \/ AnyInsertResponse
    \/ Back

----------------------------------------------------------------------------
(* String helpers (String.prototype.includes, toLowerCase) *)

Includes(str, sub) ==
    \E i \in 1..(Len(str) - Len(sub) + 1) : SubSeq(str, i, i + Len(sub) - 1) = sub

\* position of the first occurrence of sub in str, 0 when there is none
IndexOf(str, sub) ==
    IF Includes(str, sub)
    THEN CHOOSE i \in 1..(Len(str) - Len(sub) + 1) :
            /\ SubSeq(str, i, i + Len(sub) - 1) = sub
            /\ \A j \in 1..(i - 1) : SubSeq(str, j, j + Len(sub) - 1) # sub
    ELSE 0

UpperLetters == "ABCDEFGHIJKLMNOPQRSTUVWXYZ"
LowerLetters == "abcdefghijklmnopqrstuvwxyz"

lowerChar(c) ==
    IF Includes(UpperLetters, c)
    THEN SubSeq(LowerLetters, IndexOf(UpperLetters, c), IndexOf(UpperLetters, c))
    ELSE c

RECURSIVE toLowerCase(_)
toLowerCase(str) ==
    IF Len(str) = 0 THEN ""
    ELSE lowerChar(SubSeq(str, 1, 1)) \o toLowerCase(SubSeq(str, 2, Len(str)))

\* the part of str before the first ch, all of str when ch does not occur
Before(str, ch) ==
    IF Includes(str, ch) THEN SubSeq(str, 1, IndexOf(str, ch) - 1) ELSE str

\* the part of str from the first ch on, empty when ch does not occur
From(str, ch) ==
    IF Includes(str, ch) THEN SubSeq(str, IndexOf(str, ch), Len(str)) ELSE ""

----------------------------------------------------------------------------
(* new URL(url): scheme "://" authority path "?" query "#" fragment.       *)
(* A string without a scheme, or an http(s) one without a host, throws.    *)

SchemeChars == "abcdefghijklmnopqrstuvwxyzABCDEFGHIJKLMNOPQRSTUVWXYZ0123456789+-."

validScheme(scheme) ==
    /\ Len(scheme) > 0
    /\ Includes(LowerLetters \o UpperLetters, SubSeq(scheme, 1, 1))
    /\ \A i \in 1..Len(scheme) : Includes(SchemeChars, SubSeq(scheme, i, i))

InvalidURL == [ok |-> FALSE, protocol |-> "", hostname |-> "", pathname |-> "",
               search |-> ""]

parseURL(url) ==
    LET i == IndexOf(url, "://")
        scheme == SubSeq(url, 1, i - 1)
        rest == Before(SubSeq(url, i + 3, Len(url)), "#")
        beforeQuery == Before(rest, "?")
        authority == Before(beforeQuery, "/")
        path == From(beforeQuery, "/")
    IN IF i = 0 \/ ~validScheme(scheme) THEN InvalidURL
       ELSE IF Len(Before(authority, ":")) = 0 \/ Includes(authority, " ")
            THEN InvalidURL
       ELSE [ok |-> TRUE,
             protocol |-> toLowerCase(scheme) \o ":",
             hostname |-> toLowerCase(Before(authority, ":")),
             pathname |-> IF Len(path) = 0 THEN "/" ELSE path,
             search |-> From(rest, "?")]

\* urlObj.searchParams.has(name)
searchParamsHas(search, name) ==
    LET query == "&" \o SubSeq(search, 2, Len(search)) \o "&"
    IN \/ Includes(query, "&" \o name \o "=")
       \/ Includes(query, "&" \o name \o "&")

imageExtensions == <<".jpg", ".jpeg", ".png", ".gif", ".webp", ".svg", ".bmp", ".avif">>

imageHosts == <<"images.pexels.com", "images.unsplash.com", "cdn.pixabay.com",
                "i.imgur.com", "upload.wikimedia.org", "raw.githubusercontent.com">>

isValidImageUrl(url) ==
    IF Len(url) = 0 THEN FALSE
    ELSE LET urlObj == parseURL(url)
             pathname == toLowerCase(urlObj.pathname)
             hostname == toLowerCase(urlObj.hostname)
         IN IF ~urlObj.ok THEN FALSE
            ELSE IF urlObj.protocol \notin {"http:", "https:"} THEN FALSE
            ELSE \/ \E e \in 1..Len(imageExtensions) : Includes(pathname, imageExtensions[e])
                 \/ \E h \in 1..Len(imageHosts) : Includes(hostname, imageHosts[h])
                 \/ Includes(pathname, "/images/")
                 \/ searchParamsHas(urlObj.search, "w")
                 \/ searchParamsHas(urlObj.search, "width")

\* the URLs the calls of the data-access layer are made with
GoodImageUrl == "https://x.com/a.png"
BadImageUrl == "https://x.com/page"
UrlInputs ==
    { "", GoodImageUrl, BadImageUrl,
      "not a url",
      "ftp://x.com/a.png",
      "https://images.pexels.com/photos/1/x.jpeg",
      "HTTP://X.COM/A.JPG",
      "https://i.imgur.com/x",
      "https://x.com/images/1",
      "https://x.com/p?w=10",
      "https://x.com/p?q=1&width=10",
      "https://x.com/p?q=1",
      "https://x.com/a.png/page",
      "https://x.com/a.pngx",
      "https://i.imgur.com.evil.io/x",
      "https://",
      "x.com/a.png" }

\* isValidImageUrl as the callers below reach it: its verdicts on UrlInputs
\* are computed once and looked up, any other URL is computed at the call
isValidImageUrlVerdicts == [url \in UrlInputs |-> isValidImageUrl(url)]

isValidImageUrlCall(url) ==
    IF url \in UrlInputs THEN isValidImageUrlVerdicts[url] ELSE isValidImageUrl(url)


----------------------------------------------------------------------------
(* Data-access layer: insertImage, getImagesByQuestionId, insertQuestion,  *)
(* updateQuestion, getQuestionsByLanguage.  Each function is its body      *)
(* inside try, wrapped by its catch block.                                 *)

\* JavaScript truthiness of an optional string / an optional number
truthyStr(v) == v # None /\ Len(v[1]) > 0
truthyNum(v) == v # None /\ v[1] # 0

\* a || b for optional values
orElseStr(v, d) == IF truthyStr(v) THEN v[1] ELSE d
orElseNum(v, d) == IF truthyNum(v) THEN v[1] ELSE d

\* mutant: only a missing field is refused, an empty string passes
insertImageRejectsMissingOnly(imageData) ==
    imageData.question_id = None \/ imageData.image_url = None

\* insertImage: the validation of step 1
insertImageRejects(imageData) ==
    ~truthyStr(imageData.question_id) \/ ~truthyStr(imageData.image_url)

\* insertImage: dataToInsert of step 2
insertImageData(imageData) ==
    [question_id |-> imageData.question_id[1],
     image_url |-> imageData.image_url[1],
     image_alt |-> orElseStr(imageData.image_alt, ""),
     image_type |-> orElseStr(imageData.image_type, "general"),
     display_order |-> orElseNum(imageData.display_order, 1)]

\* the request insertImage sends, none when the validation throws
insertImageRequest(imageData) ==
    IF insertImageRejects(imageData) THEN None
    ELSE Some([table |-> "images", verb |-> "insert",
               payload |-> insertImageData(imageData)])

insertImageBody(imageData, reply) ==
    IF insertImageRejects(imageData)
    THEN Throw("question_id and image_url are required fields")
    ELSE IF Await(reply).thrown THEN Await(reply)
    ELSE IF reply.kind = "error"
         THEN Throw("Failed to insert image: " \o reply.message)
    ELSE Return(Success(Val(reply.data), "Image inserted successfully"))

insertImage(imageData, reply) == CatchAll(insertImageBody(imageData, reply), Null)

getImagesByQuestionIdBody(questionId, reply) ==
    IF Await(reply).thrown THEN Await(reply)
    ELSE IF reply.kind = "error"
         THEN Throw("Failed to fetch images: " \o reply.message)
    ELSE Return(Success(Val(IF reply.kind = "null" THEN <<>> ELSE reply.data),
                        "Found images"))

getImagesByQuestionId(questionId, reply) ==
    CatchAll(getImagesByQuestionIdBody(questionId, reply), Val(<<>>))

\* mutant: the image URL is not validated
insertQuestionRejectsSkipsImage(questionData) ==
    \/ Len(questionData.question_text) = 0
    \/ questionData.options = None
    \/ Len(questionData.options[1]) = 0

\* insertQuestion: the two validations
insertQuestionRejects(questionData) ==
    \/ Len(questionData.question_text) = 0
    \/ questionData.options = None
    \/ Len(questionData.options[1]) = 0
    \/ truthyStr(questionData.images) /\ ~isValidImageUrlCall(questionData.images[1])

insertQuestionError(questionData) ==
    IF \/ Len(questionData.question_text) = 0
       \/ questionData.options = None
       \/ Len(questionData.options[1]) = 0
    THEN "question_text and options are required fields"
    ELSE "Invalid image URL format"

\* insertQuestion: dataToInsert
insertQuestionData(questionData) ==
    [question_text |-> questionData.question_text,
     options |-> questionData.options[1],
     correct_answer |-> questionData.correct_answer,
     language |-> questionData.language,
     category |-> orElseStr(questionData.category, "general"),
     difficulty |-> orElseStr(questionData.difficulty, "easy"),
     images |-> IF truthyStr(questionData.images) THEN questionData.images ELSE None]

insertQuestionRequest(questionData) ==
    IF insertQuestionRejects(questionData) THEN None
    ELSE Some([table |-> "questions", verb |-> "insert",
               payload |-> insertQuestionData(questionData)])

insertQuestionBody(questionData, reply) ==
    IF insertQuestionRejects(questionData)
    THEN Throw(insertQuestionError(questionData))
    ELSE IF Await(reply).thrown THEN Await(reply)
    ELSE IF reply.kind = "error"
         THEN Throw("Failed to insert question: " \o reply.message)
    ELSE Return(Success(Val(reply.data), "Question inserted successfully"))

insertQuestion(questionData, reply) ==
    CatchAll(insertQuestionBody(questionData, reply), Null)

\* mutant: every carried images value is validated, null and '' included
updateQuestionRejectsEmpty(updates) ==
    /\ "images" \in DOMAIN updates
    /\ updates.images = None \/ ~isValidImageUrlCall(updates.images[1])

\* updateQuestion: if (updates.images && !isValidImageUrl(updates.images))
updateQuestionRejects(updates) ==
    /\ "images" \in DOMAIN updates
    /\ truthyStr(updates.images)
    /\ ~isValidImageUrlCall(updates.images[1])

updateQuestionRequest(id, updates) ==
    IF updateQuestionRejects(updates) THEN None
    ELSE Some([table |-> "questions", verb |-> "update", id |-> id,
               payload |-> updates])

updateQuestionBody(id, updates, reply) ==
    IF updateQuestionRejects(updates) THEN Throw("Invalid image URL format")
    ELSE IF Await(reply).thrown THEN Await(reply)
    ELSE IF reply.kind = "error"
         THEN Throw("Failed to update question: " \o reply.message)
    ELSE Return(Success(Val(reply.data), "Question updated successfully"))

updateQuestion(id, updates, reply) ==
    CatchAll(updateQuestionBody(id, updates, reply), Null)


----------------------------------------------------------------------------
(* The backend relations and the calls made on them *)

ImageTypes == {"diagram", "chart", "photo", "illustration", "general"}
Difficulties == {"easy", "medium", "hard"}

seedQuestion ==
    [id |-> "q1", question_text |-> "What is the capital of India?",
     options |-> FourOptions, correct_answer |-> 1, language |-> "en",
     category |-> "geography", difficulty |-> "easy", images |-> None,
     created_at |-> 0]

\* arguments the calls are made with
ImageOptionalInputs ==
    { [image_alt |-> None, image_type |-> None, display_order |-> None],
      [image_alt |-> None, image_type |-> None, display_order |-> Some(0)],
      [image_alt |-> Some("a chart"), image_type |-> Some("chart"),
       display_order |-> Some(2)] }

ImageInputs ==
    { [question_id |-> q, image_url |-> u] @@ o :
        q \in {None, Some(""), Some("q1")},
        u \in {None, Some(""), Some(GoodImageUrl)},
        o \in ImageOptionalInputs }

QuestionInputs ==
    [question_text : {"", "Q"},
     options : {None, Some(<<>>), Some(<<"A", "B">>)},
     correct_answer : {0},
     language : {"en", "fr"},
     category : {None},
     difficulty : {None},
     images : {None, Some(""), Some(GoodImageUrl), Some(BadImageUrl)}]
    \cup {[question_text |-> "Q", options |-> Some(<<"A", "B">>),
           correct_answer |-> 5, language |-> "en", category |-> None,
           difficulty |-> None, images |-> None]}

UpdateInputs ==
    { [images |-> Some(BadImageUrl)], [images |-> Some(GoodImageUrl)],
      [images |-> Some("")], [images |-> None],
      [language |-> "fr"], [question_text |-> "Q2"] }

QuestionIdInputs == {"q1", "q9"}

\* rows as the backend stores them: it assigns the id and the timestamp
persisted(prefix, table, payload) ==
    [id |-> prefix \o ToString(Cardinality(table) + 1), created_at |-> 0] @@ payload

\* CHECK constraints of the questions relation
questionRowValid(row) ==
    row.language \in Languages /\ row.difficulty \in Difficulties

\* constraints of the images relation: the foreign key and the type check
imageRowValid(row) ==
    /\ \E q \in questions_table : q.id = row.question_id
    /\ row.image_type \in ImageTypes

\* mutant: the rows come in descending display_order
descendingByDisplayOrder(S) ==
    { seq \in [1..Cardinality(S) -> S] :
        /\ \A i, j \in 1..Cardinality(S) : i # j => seq[i] # seq[j]
        /\ \A i, j \in 1..Cardinality(S) : i < j =>
               seq[i].display_order >= seq[j].display_order }

\* the sequences that list the rows of set S in ascending display_order
\* (rows of equal display_order come in either order)
ascendingByDisplayOrder(S) ==
    { seq \in [1..Cardinality(S) -> S] :
        /\ \A i, j \in 1..Cardinality(S) : i # j => seq[i] # seq[j]
        /\ \A i, j \in 1..Cardinality(S) : i < j =>
               seq[i].display_order <= seq[j].display_order }

\* the sequences that list the rows of set S in any order, at most limit rows
anyOrder(S, limit) ==
    UNION { { seq \in [1..n -> S] : \A i, j \in 1..n : i # j => seq[i] # seq[j] }
            : n \in {Min(Cardinality(S), limit)} }

replyOfKind(kind, data) ==
    CASE kind = "data" -> DataReply(data)
      [] kind = "null" -> NullReply
      [] kind = "error" -> ErrorReply
      [] kind = "throw" -> ThrowReply
      [] kind = "reject" -> RejectReply

WriteKinds == {"data", "error", "throw", "reject"}
ReadKinds == {"data", "null", "error", "throw", "reject"}

\* a call that sent nothing to the backend
NothingSent(op, arg, result) ==
    /\ dalCall' = [op |-> op, arg |-> arg]
    /\ dalRequest' = None
    /\ dalReply' = None
    /\ dalResult' = result
    /\ UNCHANGED <<questions_table, images_table>>

DalInsertImage(imageData, kind) ==
    /\ LET request == insertImageRequest(imageData)
       IN IF request = None
          THEN /\ kind = "error"
               /\ NothingSent("insertImage", imageData, insertImage(imageData, ErrorReply))
          ELSE LET row == persisted("img", images_table, request[1].payload)
                   reply == replyOfKind(kind, row)
               IN /\ kind = "data" =>
                        imageRowValid(row) /\ Cardinality(images_table) < MaxStoredRows
                  /\ dalCall' = [op |-> "insertImage", arg |-> imageData]
                  /\ dalRequest' = request
                  /\ dalReply' = Some(reply)
                  /\ dalResult' = insertImage(imageData, reply)
                  /\ images_table' = IF kind = "data" THEN images_table \cup {row}
                                     ELSE images_table
                  /\ UNCHANGED questions_table
    /\ UNCHANGED otherThanDal

DalGetImages(questionId, reply) ==
    /\ dalCall' = [op |-> "getImagesByQuestionId", arg |-> questionId]
    /\ dalRequest' = Some([table |-> "images", verb |-> "select", id |-> questionId])
    /\ dalReply' = Some(reply)
    /\ dalResult' = getImagesByQuestionId(questionId, reply)
    /\ UNCHANGED <<questions_table, images_table>>
    /\ UNCHANGED otherThanDal

\* the replies a fetch of the images of questionId can get
ImageReplies(questionId) ==
    LET matching == {r \in images_table : r.question_id = questionId}
    IN { DataReply(rows) : rows \in ascendingByDisplayOrder(matching) }
           \cup (IF matching = {} THEN {NullReply} ELSE {})
           \cup {ErrorReply, ThrowReply, RejectReply}

DalInsertQuestion(questionData, kind) ==
    /\ LET request == insertQuestionRequest(questionData)
       IN IF request = None
          THEN /\ kind = "error"
               /\ NothingSent("insertQuestion", questionData,
                              insertQuestion(questionData, ErrorReply))
          ELSE LET row == persisted("q", questions_table, request[1].payload)
                   reply == replyOfKind(kind, row)
               IN /\ kind = "data" =>
                        questionRowValid(row) /\ Cardinality(questions_table) < MaxStoredRows
                  /\ dalCall' = [op |-> "insertQuestion", arg |-> questionData]
                  /\ dalRequest' = request
                  /\ dalReply' = Some(reply)
                  /\ dalResult' = insertQuestion(questionData, reply)
                  /\ questions_table' = IF kind = "data" THEN questions_table \cup {row}
                                        ELSE questions_table
                  /\ UNCHANGED images_table
    /\ UNCHANGED otherThanDal

\* the row an update turns row into
updatedRow(row, updates) ==
    [f \in DOMAIN row |-> IF f \in DOMAIN updates THEN updates[f] ELSE row[f]]

DalUpdateQuestion(id, updates, kind) ==
    /\ LET request == updateQuestionRequest(id, updates)
       IN IF request = None
          THEN /\ kind = "error"
               /\ NothingSent("updateQuestion", <<id, updates>>,
                              updateQuestion(id, updates, ErrorReply))
          ELSE LET matching == {r \in questions_table : r.id = id}
                   old == CHOOSE r \in matching : TRUE
                   row == IF matching = {} THEN seedQuestion ELSE updatedRow(old, updates)
                   reply == replyOfKind(kind, row)
               IN /\ kind = "data" => matching # {} /\ questionRowValid(row)
                  /\ dalCall' = [op |-> "updateQuestion", arg |-> <<id, updates>>]
                  /\ dalRequest' = request
                  /\ dalReply' = Some(reply)
                  /\ dalResult' = updateQuestion(id, updates, reply)
                  /\ questions_table' = IF kind = "data"
                                        THEN (questions_table \ matching) \cup {row}
                                        ELSE questions_table
                  /\ UNCHANGED images_table
    /\ UNCHANGED otherThanDal

\* the replies a fetch of the questions of a language can get
StoredQuestionReplies(lang, limit) ==
    LET matching == {r \in questions_table : r.language = lang}
    IN { DataReply(rows) : rows \in anyOrder(matching, limit) }
           \cup (IF matching = {} THEN {NullReply} ELSE {})
           \cup {ErrorReply, ThrowReply, RejectReply}

DalGetQuestions(lang, reply) ==
    /\ dalCall' = [op |-> "getQuestionsByLanguage", arg |-> lang]
    /\ dalRequest' = Some([table |-> "questions", verb |-> "select", id |-> lang])
    /\ dalReply' = Some(reply)
    /\ dalResult' = getQuestionsByLanguage(lang, FetchLimit, reply)
    /\ UNCHANGED <<questions_table, images_table>>
    /\ UNCHANGED otherThanDal

InitDal ==
    /\ questions_table = {seedQuestion}
    /\ images_table = {}
    /\ dalCall = [op |-> "none", arg |-> <<>>]
    /\ dalRequest = None
    /\ dalReply = None
    /\ dalResult = Return(<<>>)

NextDal ==
    \/ \E imageData \in ImageInputs : \E kind \in WriteKinds :
           DalInsertImage(imageData, kind)
    \/ \E questionId \in QuestionIdInputs : \E reply \in ImageReplies(questionId) :
           DalGetImages(questionId, reply)
    \/ \E questionData \in QuestionInputs : \E kind \in WriteKinds :
           DalInsertQuestion(questionData, kind)
    \/ \E id \in QuestionIdInputs : \E updates \in UpdateInputs : \E kind \in WriteKinds :
           DalUpdateQuestion(id, updates, kind)
    \/ \E lang \in Languages : \E reply \in StoredQuestionReplies(lang, FetchLimit) :
           DalGetQuestions(lang, reply)

----------------------------------------------------------------------------
(* Image URL validation: isValidImageUrl and validateImageUrl called on    *)
(* their own, with every outcome of the network probe.                     *)

startsWith(str, prefix) ==
    Len(prefix) <= Len(str) /\ SubSeq(str, 1, Len(prefix)) = prefix

\* a fetch() either rejects or resolves to a response
FetchThrows == [kind |-> "throw", status |-> 0, contentType |-> None]
Response(status, contentType) ==
    [kind |-> "response", status |-> status, contentType |-> contentType]

\* response.ok
responseOk(response) == response.status >= 200 /\ response.status <= 299

StatusCodes == {200, 204, 206, 404, 500}
ContentTypes == {None, Some("image/png"), Some("text/html")}

HeadOutcomes ==
    {FetchThrows} \cup { Response(st, ct) : st \in StatusCodes, ct \in ContentTypes }
GetOutcomes ==
    {FetchThrows} \cup { Response(st, None) : st \in StatusCodes }

HeadRequest(url, outcome) ==
    [method |-> "HEAD", url |-> url, range |-> None, outcome |-> outcome]
GetRequest(url, outcome) ==
    [method |-> "GET", url |-> url, range |-> Some("bytes=0-1023"), outcome |-> outcome]

\* mutant: when both requests fail the URL is refused
validateImageUrlRefusesOnFailure(url, head, get) ==
    IF ~isValidImageUrlCall(url)
    THEN [result |-> FALSE, requests |-> <<>>]
    ELSE IF head.kind = "response"
    THEN [result |-> /\ responseOk(head)
                     /\ \/ (head.contentType # None
                               /\ startsWith(head.contentType[1], "image/"))
                        \/ head.status = 200,
          requests |-> <<HeadRequest(url, head)>>]
    ELSE IF get.kind = "response"
    THEN [result |-> responseOk(get),
          requests |-> <<HeadRequest(url, head), GetRequest(url, get)>>]
    ELSE [result |-> FALSE,
          requests |-> <<HeadRequest(url, head), GetRequest(url, get)>>]

\* validateImageUrl: its result and the requests it made, given what the
\* HEAD request and the GET request do
validateImageUrl(url, head, get) ==
    IF ~isValidImageUrlCall(url)
    THEN [result |-> FALSE, requests |-> <<>>]
    ELSE IF head.kind = "response"
    THEN [result |-> /\ responseOk(head)
                     /\ \/ (head.contentType # None
                               /\ startsWith(head.contentType[1], "image/"))
                        \/ head.status = 200,
          requests |-> <<HeadRequest(url, head)>>]
    ELSE IF get.kind = "response"
    THEN [result |-> responseOk(get),
          requests |-> <<HeadRequest(url, head), GetRequest(url, get)>>]
    ELSE [result |-> TRUE,
          requests |-> <<HeadRequest(url, head), GetRequest(url, get)>>]

IsValidImageUrl(url) ==
    /\ urlCall' = [op |-> "isValidImageUrl", url |-> url]
    /\ urlRequests' = <<>>
    /\ urlResult' = isValidImageUrlCall(url)
    /\ UNCHANGED <<testVars, dalVars, resultsVars, providerVars, formVars,
                   imageVars>>

ValidateImageUrl(url, head, get) ==
    /\ urlCall' = [op |-> "validateImageUrl", url |-> url]
    /\ urlRequests' = validateImageUrl(url, head, get).requests
    /\ urlResult' = validateImageUrl(url, head, get).result
    /\ UNCHANGED <<testVars, dalVars, resultsVars, providerVars, formVars,
                   imageVars>>

NextUrl ==
    \/ \E url \in UrlInputs : IsValidImageUrl(url)
    \/ \E url \in UrlInputs : \E head \in HeadOutcomes : \E get \in GetOutcomes :
           ValidateImageUrl(url, head, get)

----------------------------------------------------------------------------
(* The results screen (ResultsScreen) *)

\* params.score ? parseInt(params.score as string) : 0, and the same for
\* params.total: an absent or empty param counts as 0
paramInt(v) == IF v = None \/ v[1] = "" THEN 0 ELSE parseInt(v[1])

\* the route params a results screen is opened with: none, or a score and a
\* total written by toString
ParamInputs ==
    {[score |-> None, total |-> None]} \cup
    UNION { { [score |-> Some(toString(s)), total |-> Some(toString(t))] :
                s \in 0..t } : t \in 0..FetchLimit }

\* mutant: the percentage is cut off instead of rounded
percentageFloors(s, t) == IF t > 0 THEN (s * 100) \div t ELSE 0

\* total > 0 ? Math.round((score / total) * 100) : 0.  Math.round takes the
\* nearest integer and rounds a half upwards.
percentage(s, t) == IF t > 0 THEN (2 * s * 100 + t) \div (2 * t) ELSE 0

getScoreColor(p) ==
    IF p >= 80 THEN "#16A34A"
    ELSE IF p >= 60 THEN "#D97706"
    ELSE "#DC2626"

\* The Hindi and Telugu texts are written here by language and band.
getScoreMessage(p, lang) ==
    IF p >= 80
    THEN (IF lang = "en" THEN "Excellent! You are ready for the license test."
          ELSE IF lang = "hi" THEN "hi: excellent" ELSE "tel: excellent")
    ELSE IF p >= 60
    THEN (IF lang = "en" THEN "Good! Practice a bit more."
          ELSE IF lang = "hi" THEN "hi: good" ELSE "tel: good")
    ELSE (IF lang = "en" THEN "Keep practicing! You can do better."
          ELSE IF lang = "hi" THEN "hi: keep practicing" ELSE "tel: keep practicing")

\* rows that can enter test_sessions: the row written at time t has id
\* toString(t); completed_at is nullable
MaxSessions == 2
SessionRows ==
    { [newSession(lang, sampleQuestions(lang), t)
          EXCEPT !.completed_at = c, !.score = IF c = None THEN 0 ELSE 2] :
        lang \in {"en", "hi"}, t \in 1..MaxSessions, c \in {None, Some(1)} }

\* a row enters test_sessions (id is the primary key)
SessionStored(row) ==
    /\ \A r \in test_sessions : r.id # row.id
    /\ test_sessions' = test_sessions \cup {row}
    /\ UNCHANGED <<language, testScreenVars, dalVars, urlVars, resultsVars,
                   providerVars, formVars, imageVars>>

HistoryLimit == 10

\* the backend's answers to
\*   from('test_sessions').select('*').eq('language', lang)
\*     .not('completed_at', 'is', null)
\*     .order('created_at', { ascending: false }).limit(10)
\* the matching rows newest first, at most HistoryLimit of them, or a failure
historyReplies(lang) ==
    LET matching == { r \in test_sessions :
                        r.language = lang /\ r.completed_at # None }
        n == Min(Cardinality(matching), HistoryLimit)
    IN { DataReply(seq) : seq \in
           { seq \in [1..n -> matching] :
               /\ \A i, j \in 1..n : i # j => seq[i] # seq[j]
               /\ \A i, j \in 1..n : i < j => seq[i].created_at >= seq[j].created_at
               /\ \A r \in matching : (\A i \in 1..n : seq[i] # r) =>
                      \A i \in 1..n : seq[i].created_at >= r.created_at } }
       \cup {ErrorReply, ThrowReply, RejectReply}

\* a results screen is opened with params p: its mount effect calls
\* loadTestHistory, which sends the query for the language of that render
ResultsMount(p) ==
    /\ ~resultsMounted
    /\ resultsMounted' = TRUE
    /\ params' = p
    /\ testHistory' = <<>>
    /\ historyLoading' = TRUE
    /\ historyRequest' = Some(language)
    /\ UNCHANGED <<language, test_sessions, testScreenVars, dalVars, urlVars,
                   providerVars, formVars, imageVars>>

\* the rest of loadTestHistory once its query is answered by reply:
\* if (data) setTestHistory(data); a throw is logged; finally setLoading(false)
HistoryResponse(reply) ==
    /\ resultsMounted
    /\ historyRequest # None
    /\ testHistory' = IF reply.kind = "data" THEN reply.data ELSE testHistory
    /\ historyLoading' = FALSE
    /\ historyRequest' = None
    /\ UNCHANGED <<resultsMounted, params>>
    /\ UNCHANGED <<language, test_sessions, testScreenVars, dalVars, urlVars,
                   providerVars, formVars, imageVars>>

\* the results screen is left (retake or home): its state is gone and an
\* answer that comes later sets nothing
ResultsUnmount ==
    /\ resultsMounted
    /\ resultsMounted' = FALSE
    /\ params' = [score |-> None, total |-> None]
    /\ testHistory' = <<>>
    /\ historyLoading' = TRUE
    /\ historyRequest' = None
    /\ UNCHANGED <<language, test_sessions, testScreenVars, dalVars, urlVars,
                   providerVars, formVars, imageVars>>

\* the provider sets its language state (loadLanguage or setLanguage); the
\* results screen renders again with the new language, its mount effect
\* does not run again
LanguageStateSet(lang) ==
    /\ lang # language
    /\ language' = lang
    /\ UNCHANGED <<test_sessions, testScreenVars, dalVars, urlVars, resultsVars,
                   providerVars, formVars, imageVars>>

NextResults ==
    \/ \E row \in SessionRows : SessionStored(row)
    \/ \E p \in ParamInputs : ResultsMount(p)
    \/ \E reply \in historyReplies(IF historyRequest = None THEN language
                                   ELSE historyRequest[1]) : HistoryResponse(reply)
    \/ ResultsUnmount
    \/ \E lang \in Languages : LanguageStateSet(lang)

----------------------------------------------------------------------------
(* The language provider (LanguageProvider) *)

\* the language codes offered for selection: the keys of `languages`
languages == {"en", "hi", "tel"}

\* what the preference store can hold under 'selectedLanguage' when the
\* provider mounts: nothing, a language code, or any other string
StoredValues == {None, Some("en"), Some("hi"), Some("tel"), Some("fr"), Some("")}

\* mutant: any non-empty stored value is taken
loadLanguageAcceptsAnyStored(savedLanguage) ==
    savedLanguage # None /\ savedLanguage[1] # ""

\* savedLanguage && ['en', 'hi', 'tel'].includes(savedLanguage)
loadLanguageAccepts(savedLanguage) ==
    /\ savedLanguage # None /\ savedLanguage[1] # ""
    /\ savedLanguage[1] \in {"en", "hi", "tel"}

\* the store reads the value for the getItem of loadLanguage; the promise
\* resolves with it later
GetItemServed ==
    /\ getItemCall = "pending"
    /\ getItemValue = None
    /\ getItemValue' = Some(storage)
    /\ UNCHANGED <<language, storage, isMounted, getItemCall, pendingSetItem,
                   setItemDone, setItemLog, nSetLanguage>>
    /\ UNCHANGED <<test_sessions, testScreenVars, dalVars, urlVars, resultsVars,
                   formVars, imageVars>>

\* the rest of loadLanguage: getItem resolves with the value the store
\* read, or rejects and the catch logs
GetItemResponse(outcome) ==
    /\ getItemCall = "pending"
    /\ outcome = "resolved" => getItemValue # None
    /\ getItemCall' = outcome
    /\ language' = IF outcome = "resolved" /\ isMounted
                      /\ loadLanguageAccepts(getItemValue[1])
                   THEN getItemValue[1][1]
                   ELSE language
    /\ UNCHANGED <<storage, isMounted, getItemValue, pendingSetItem, setItemDone,
                   setItemLog, nSetLanguage>>
    /\ UNCHANGED <<test_sessions, testScreenVars, dalVars, urlVars, resultsVars,
                   formVars, imageVars>>

\* setLanguage(newLanguage) up to its await, called from a language card of
\* the home or the settings screen
MaxSetLanguage == 2
SetLanguage(newLanguage) ==
    /\ isMounted
    /\ nSetLanguage < MaxSetLanguage
    /\ nSetLanguage' = nSetLanguage + 1
    /\ pendingSetItem' = pendingSetItem \cup
                             {[n |-> nSetLanguage + 1, value |-> newLanguage,
                               duringLoad |-> getItemCall = "pending"]}
    /\ setItemLog' = setItemLog \cup {newLanguage}
    /\ UNCHANGED <<language, storage, isMounted, getItemCall, getItemValue,
                   setItemDone>>
    /\ UNCHANGED <<test_sessions, testScreenVars, dalVars, urlVars, resultsVars,
                   formVars, imageVars>>

\* mutant: the state is set without a look at the mounted flag
SetItemResponseUnguarded(p, outcome) ==
    /\ p \in pendingSetItem
    /\ pendingSetItem' = pendingSetItem \ {p}
    /\ setItemDone' = setItemDone \cup {[call |-> p, outcome |-> outcome]}
    /\ storage' = IF outcome = "resolved" THEN Some(p.value) ELSE storage
    /\ language' = IF outcome = "resolved" THEN p.value ELSE language
    /\ UNCHANGED <<isMounted, getItemCall, getItemValue, setItemLog, nSetLanguage>>
    /\ UNCHANGED <<test_sessions, testScreenVars, dalVars, urlVars, resultsVars,
                   formVars, imageVars>>

\* the rest of setLanguage call p: setItem resolves and the state is set if
\* the provider is still mounted, or it rejects and the catch logs
SetItemResponse(p, outcome) ==
    /\ p \in pendingSetItem
    /\ pendingSetItem' = pendingSetItem \ {p}
    /\ setItemDone' = setItemDone \cup {[call |-> p, outcome |-> outcome]}
    /\ storage' = IF outcome = "resolved" THEN Some(p.value) ELSE storage
    /\ language' = IF outcome = "resolved" /\ isMounted THEN p.value ELSE language
    /\ UNCHANGED <<isMounted, getItemCall, getItemValue, setItemLog, nSetLanguage>>
    /\ UNCHANGED <<test_sessions, testScreenVars, dalVars, urlVars, resultsVars,
                   formVars, imageVars>>

\* the cleanup of the provider's effect
ProviderUnmount ==
    /\ isMounted
    /\ isMounted' = FALSE
    /\ UNCHANGED <<language, storage, getItemCall, getItemValue, pendingSetItem,
                   setItemDone, setItemLog, nSetLanguage>>
    /\ UNCHANGED <<test_sessions, testScreenVars, dalVars, urlVars, resultsVars,
                   formVars, imageVars>>

NextLang ==
    \/ GetItemServed
    \/ \E outcome \in {"resolved", "rejected"} : GetItemResponse(outcome)
    \/ \E newLanguage \in languages : SetLanguage(newLanguage)
    \/ \E p \in pendingSetItem : \E outcome \in {"resolved", "rejected"} :
           SetItemResponse(p, outcome)
    \/ ProviderUnmount

----------------------------------------------------------------------------
(* The question form (QuestionForm) *)

\* String.prototype.trim for the spaces of the inputs used here
RECURSIVE trim(_)
trim(str) ==
    IF Len(str) = 0 THEN str
    ELSE IF SubSeq(str, 1, 1) = " " THEN trim(SubSeq(str, 2, Len(str)))
    ELSE IF SubSeq(str, Len(str), Len(str)) = " " THEN trim(SubSeq(str, 1, Len(str) - 1))
    ELSE str

\* the texts typed into an option field, the question field and the URL field
OptionTexts == {"", "A "}
QuestionTexts == {"", "Q "}
FormUrls == {"", GoodImageUrl, BadImageUrl}

\* addOption: the option list it sets
addOption(opts) == IF Len(opts) < 6 THEN Append(opts, "") ELSE opts

\* mutant: the correct answer is not adjusted after a removal
removeOptionKeepsIndex(opts, correct, index) ==
    IF Len(opts) > 2
    THEN [options |-> [i \in 1..(Len(opts) - 1) |->
                          IF i - 1 < index THEN opts[i] ELSE opts[i + 1]],
          correctAnswer |-> correct]
    ELSE [options |-> opts, correctAnswer |-> correct]

\* removeOption(index): the option list and the correct answer it sets;
\* positions are counted from 0 as in the code
removeOption(opts, correct, index) ==
    IF Len(opts) > 2
    THEN LET newOptions == [i \in 1..(Len(opts) - 1) |->
                               IF i - 1 < index THEN opts[i] ELSE opts[i + 1]]
         IN [options |-> newOptions,
             correctAnswer |-> IF correct >= Len(newOptions)
                               THEN Len(newOptions) - 1
                               ELSE correct]
    ELSE [options |-> opts, correctAnswer |-> correct]

\* updateOption(index, value): the option list it sets
updateOption(opts, index, value) == [opts EXCEPT ![index + 1] = value]

\* handleSubmit: one of its three validations fails and it returns after
\* the alert
formRejects ==
    \/ trim(questionText) = ""
    \/ \E i \in 1..Len(options) : trim(options[i]) = ""
    \/ imageUrl # "" /\ ~isValidImageUrlCall(imageUrl)

\* handleSubmit: questionData, for a form that shows the questions of lang
\* and leaves category and difficulty as they are at mount
questionDataOfForm(lang) ==
    [question_text |-> trim(questionText),
     options |-> Some([i \in 1..Len(options) |-> trim(options[i])]),
     correct_answer |-> correctAnswer,
     language |-> lang,
     category |-> Some("general"),
     difficulty |-> Some("easy"),
     images |-> IF trim(imageUrl) = "" THEN None ELSE Some(trim(imageUrl))]

\* the Add Option button, rendered while options.length < 6
AddOption ==
    /\ Len(options) < 6
    /\ options' = addOption(options)
    /\ UNCHANGED <<questionText, correctAnswer, imageUrl, formLoading, formRequest>>
    /\ UNCHANGED <<testVars, dalVars, urlVars, resultsVars, providerVars, imageVars>>

\* the remove button of row index, rendered while options.length > 2
RemoveOption(index) ==
    /\ Len(options) > 2
    /\ index \in 0..(Len(options) - 1)
    /\ options' = removeOption(options, correctAnswer, index).options
    /\ correctAnswer' = removeOption(options, correctAnswer, index).correctAnswer
    /\ UNCHANGED <<questionText, imageUrl, formLoading, formRequest>>
    /\ UNCHANGED <<testVars, dalVars, urlVars, resultsVars, providerVars, imageVars>>

\* typing value into the field of row index
UpdateOption(index, value) ==
    /\ index \in 0..(Len(options) - 1)
    /\ options[index + 1] # value
    /\ options' = updateOption(options, index, value)
    /\ UNCHANGED <<questionText, correctAnswer, imageUrl, formLoading, formRequest>>
    /\ UNCHANGED <<testVars, dalVars, urlVars, resultsVars, providerVars, imageVars>>

\* the correct-answer button of row index: setCorrectAnswer(index)
SetCorrectAnswer(index) ==
    /\ index \in 0..(Len(options) - 1)
    /\ index # correctAnswer
    /\ correctAnswer' = index
    /\ UNCHANGED <<questionText, options, imageUrl, formLoading, formRequest>>
    /\ UNCHANGED <<testVars, dalVars, urlVars, resultsVars, providerVars, imageVars>>

\* typing into the question field: setQuestionText
SetQuestionText(text) ==
    /\ questionText # text
    /\ questionText' = text
    /\ UNCHANGED <<options, correctAnswer, imageUrl, formLoading, formRequest>>
    /\ UNCHANGED <<testVars, dalVars, urlVars, resultsVars, providerVars, imageVars>>

\* handleImageUrlChange(url): setImageUrl(url)
HandleImageUrlChange(url) ==
    /\ imageUrl # url
    /\ imageUrl' = url
    /\ UNCHANGED <<questionText, options, correctAnswer, formLoading, formRequest>>
    /\ UNCHANGED <<testVars, dalVars, urlVars, resultsVars, providerVars, imageVars>>

\* handleSubmit up to its await; the button is disabled while loading
FormHandleSubmit ==
    /\ ~formLoading
    /\ ~formRejects
    /\ formLoading' = TRUE
    /\ formRequest' = Some(questionDataOfForm(language))
    /\ UNCHANGED <<questionText, options, correctAnswer, imageUrl>>
    /\ UNCHANGED <<testVars, dalVars, urlVars, resultsVars, providerVars, imageVars>>

\* the rest of handleSubmit once insertQuestion has returned: finally
\* setLoading(false)
FormSubmitResponse ==
    /\ formRequest # None
    /\ formLoading' = FALSE
    /\ formRequest' = None
    /\ UNCHANGED <<questionText, options, correctAnswer, imageUrl>>
    /\ UNCHANGED <<testVars, dalVars, urlVars, resultsVars, providerVars, imageVars>>

NextForm ==
    \/ AddOption
    \/ \E index \in 0..5 : RemoveOption(index)
    \/ \E index \in 0..5 : \E value \in OptionTexts : UpdateOption(index, value)
    \/ \E index \in 0..5 : SetCorrectAnswer(index)
    \/ \E text \in QuestionTexts : SetQuestionText(text)
    \/ \E url \in FormUrls : HandleImageUrlChange(url)
    \/ FormHandleSubmit
    \/ FormSubmitResponse

----------------------------------------------------------------------------
(* The question image (QuestionImage) *)

\* the imageUrl props the test screen passes: it renders the component only
\* for a truthy `images` value
ImageUrlProps ==
    {GoodImageUrl, "https://x.com/b.png", "http://x.com/c.jpg",
     " https://x.com/a.png ", " ", "not a url", "ftp://x.com/a.png"}

\* isValidUrl(url): new URL(url) parses and the protocol is http: or https:
isValidUrl(url) ==
    parseURL(url).ok /\ parseURL(url).protocol \in {"http:", "https:"}

\* the Image element of a render: none when the component returns null, shows
\* 'Invalid image URL' or is in its error state; otherwise the element with
\* uri cleanUrl, which is the element of the render before (element) when the
\* uri is the same and one that starts a load of the new uri when it is not
renderedImage(mounted, prop, error, element) ==
    LET cleanUrl == trim(prop)
    IN IF ~mounted \/ cleanUrl = "" \/ ~isValidUrl(cleanUrl) \/ error THEN None
       ELSE IF element # None /\ element[1].uri = cleanUrl THEN element
       ELSE Some([uri |-> cleanUrl, phase |-> "new"])

\* the test screen shows a question with an image: the component mounts
ImageMount(url) ==
    /\ ~imageMounted
    /\ imageMounted' = TRUE
    /\ imageUrlProp' = url
    /\ imageElement' = renderedImage(TRUE, url, imageError, None)
    /\ UNCHANGED <<imageLoading, imageError, imageDimensions, imageFailed>>
    /\ UNCHANGED <<testVars, dalVars, urlVars, resultsVars, providerVars, formVars>>

\* the test screen moves to another question with an image: the mounted
\* component is rendered with the new prop and keeps its state
ImagePropChange(url) ==
    /\ imageMounted
    /\ url # imageUrlProp
    /\ imageUrlProp' = url
    /\ imageElement' = renderedImage(TRUE, url, imageError, imageElement)
    /\ UNCHANGED <<imageMounted, imageLoading, imageError, imageDimensions,
                   imageFailed>>
    /\ UNCHANGED <<testVars, dalVars, urlVars, resultsVars, providerVars, formVars>>

\* the test screen moves to a question without image or is left
ImageUnmount ==
    /\ imageMounted
    /\ imageMounted' = FALSE
    /\ imageUrlProp' = ""
    /\ imageLoading' = TRUE
    /\ imageError' = FALSE
    /\ imageDimensions' = [width |-> 0, height |-> 0]
    /\ imageElement' = None
    /\ imageFailed' = None
    /\ UNCHANGED <<testVars, dalVars, urlVars, resultsVars, providerVars, formVars>>

\* onLoadStart of the Image element: handleLoadStart
OnLoadStart ==
    /\ imageElement # None
    /\ imageElement[1].phase = "new"
    /\ imageLoading' = TRUE
    /\ imageError' = FALSE
    /\ imageElement' = Some([imageElement[1] EXCEPT !.phase = "loading"])
    /\ UNCHANGED <<imageMounted, imageUrlProp, imageDimensions, imageFailed>>
    /\ UNCHANGED <<testVars, dalVars, urlVars, resultsVars, providerVars, formVars>>

\* onLoad of the Image element: handleLoad with the dimensions of the event
OnLoad(width, height) ==
    /\ imageElement # None
    /\ imageElement[1].phase = "loading"
    /\ imageDimensions' = [width |-> width, height |-> height]
    /\ imageLoading' = FALSE
    /\ imageError' = FALSE
    /\ imageElement' = Some([imageElement[1] EXCEPT !.phase = "loaded"])
    /\ UNCHANGED <<imageMounted, imageUrlProp, imageFailed>>
    /\ UNCHANGED <<testVars, dalVars, urlVars, resultsVars, providerVars, formVars>>

\* onError of the Image element: handleError; the next render has no Image
\* element
OnError ==
    /\ imageElement # None
    /\ imageElement[1].phase = "loading"
    /\ imageLoading' = FALSE
    /\ imageError' = TRUE
    /\ imageFailed' = Some(imageElement[1].uri)
    /\ imageElement' = renderedImage(imageMounted, imageUrlProp, TRUE, imageElement)
    /\ UNCHANGED <<imageMounted, imageUrlProp, imageDimensions>>
    /\ UNCHANGED <<testVars, dalVars, urlVars, resultsVars, providerVars, formVars>>

\* onLoadEnd of the Image element after its load: handleLoadEnd
OnLoadEnd ==
    /\ imageElement # None
    /\ imageElement[1].phase = "loaded"
    /\ imageLoading' = FALSE
    /\ imageElement' = Some([imageElement[1] EXCEPT !.phase = "ended"])
    /\ UNCHANGED <<imageMounted, imageUrlProp, imageError, imageDimensions,
                   imageFailed>>
    /\ UNCHANGED <<testVars, dalVars, urlVars, resultsVars, providerVars, formVars>>

NextImage ==
    \/ \E url \in ImageUrlProps : ImageMount(url)
    \/ \E url \in ImageUrlProps : ImagePropChange(url)
    \/ ImageUnmount
    \/ OnLoadStart
    \/ \E d \in {<<0, 0>>, <<8, 4>>, <<4, 8>>} : OnLoad(d[1], d[2])
    \/ OnError
    \/ OnLoadEnd

----------------------------------------------------------------------------
(* Specifications *)

InitUrl ==
    /\ urlCall = [op |-> "none", url |-> ""]
    /\ urlRequests = <<>>
    /\ urlResult = FALSE

InitResults ==
    /\ resultsMounted = FALSE
    /\ params = [score |-> None, total |-> None]
    /\ testHistory = <<>>
    /\ historyLoading = TRUE
    /\ historyRequest = None

\* the provider after its mount effect, over a store that holds stored
\* under 'selectedLanguage': loadLanguage is awaiting getItem
ProviderStarts(stored) ==
    /\ storage = stored
    /\ isMounted = TRUE
    /\ getItemCall = "pending"
    /\ getItemValue = None
    /\ pendingSetItem = {}
    /\ setItemDone = {}
    /\ setItemLog = {}
    /\ nSetLanguage = 0

InitProvider == ProviderStarts(None)

\* the question form as it mounts
InitForm ==
    /\ questionText = ""
    /\ options = <<"", "", "", "">>
    /\ correctAnswer = 0
    /\ imageUrl = ""
    /\ formLoading = FALSE
    /\ formRequest = None

\* no QuestionImage is mounted
InitImage ==
    /\ imageMounted = FALSE
    /\ imageUrlProp = ""
    /\ imageLoading = TRUE
    /\ imageError = FALSE
    /\ imageDimensions = [width |-> 0, height |-> 0]
    /\ imageElement = None
    /\ imageFailed = None

Init ==
    /\ InitTest /\ InitDal /\ InitUrl /\ InitResults /\ InitProvider
    /\ InitForm /\ InitImage

\* the same, over any content of the preference store
InitStored ==
    /\ InitTest /\ InitDal /\ InitUrl /\ InitResults /\ InitForm /\ InitImage
    /\ \E stored \in StoredValues : ProviderStarts(stored)

\* the test-taking flow
Next == NextTest
Spec == Init /\ [][Next]_vars

\* the backend answers every request it was sent
FairSpec == Spec /\ WF_vars(AnyLoadResponse) /\ WF_vars(AnyInsertResponse)

\* the data-access layer called on its own
SpecDal == Init /\ [][NextDal]_vars

\* the image URL validation called on its own
SpecUrl == Init /\ [][NextUrl]_vars

\* the results screen, with the provider's language and the backend's
\* test_sessions changing around it
SpecResults == Init /\ [][NextResults]_vars

\* the language provider over any content of the preference store
SpecLang == InitStored /\ [][NextLang]_vars

\* the question form on its own
SpecForm == Init /\ [][NextForm]_vars

\* the question image on its own
SpecImage == Init /\ [][NextImage]_vars

----------------------------------------------------------------------------
(* Properties of the test-taking flow *)

\* the positions at which the stored answer is the question's correct answer
correctPositions(ans, qs) ==
    { i \in 1..Len(ans) : i <= Len(qs) /\ ans[i] = Some(qs[i].correct_answer) }

\* the submits started by this step, and the submits whose insert this step
\* saw answered
startedSubmits == pendingInserts' \ pendingInserts
answeredSubmits == pendingInserts \ pendingInserts'

\* C1: whenever submit completes a session, the score written into the
\* completed session and handed to the results view is the number of
\* positions whose answer equals the question's correct answer (an unset
\* position never counts), and 0 <= score <= total_questions.
C1_ScoreIsCorrectCount ==
    [][ /\ \A p \in startedSubmits :
              /\ p.session.answers = answers
              /\ p.session.score = Cardinality(correctPositions(answers, questions))
              /\ \A i \in correctPositions(answers, questions) : answers[i] # None
              /\ 0 <= p.session.score
              /\ p.session.score <= p.session.total_questions
              /\ p.session.completed_at # None
              /\ p.score = p.session.score
        /\ \A p \in answeredSubmits :
              /\ Len(navStack') = Len(navStack) + 1
              /\ parseInt(navStack'[1].score) = p.session.score
              /\ test_sessions' \subseteq test_sessions \cup {p.session}
      ]_vars

\* C1 witness: a stored completed session with some positions right and
\* some not, its score on the results view
C1_Witness ==
    /\ navStack # <<>>
    /\ \E r \in test_sessions :
          /\ r.score = 1
          /\ r.total_questions = 3
          /\ r.id = navStack[1].sessionId
          /\ navStack[1].score = "1"

\* C2: whenever a session exists, and so at the moment submit runs, the
\* answers array has exactly total_questions entries and total_questions is
\* the length of the question list, after any loads, reloads, selects and
\* navigation.
C2_AnswersAligned ==
    /\ testSession # None =>
          /\ Len(answers) = testSession[1].total_questions
          /\ testSession[1].total_questions = Len(questions)
          /\ Len(testSession[1].questions) = Len(questions)
    /\ Rendered => testSession # None
    /\ \A p \in pendingInserts :
          Len(p.session.answers) = p.session.total_questions

\* C2 witness: a submit ran on a list reloaded after a language change,
\* with an answer selected
C2_Witness ==
    /\ nLoads = 2
    /\ pendingLoads = {}
    /\ \E p \in pendingInserts :
          /\ p.session.language = language
          /\ language # "en"
          /\ \E i \in 1..Len(p.session.answers) : p.session.answers[i] # None

\* C3: next and previous keep the position inside [0, length-1]: next adds
\* one only below length-1 and changes nothing at the last position,
\* previous subtracts one only above 0 and changes nothing at position 0.
C3_NavigationClamped ==
    Rendered =>
        LET len == Len(questions)
            idx == currentQuestionIndex
        IN /\ idx \in 0..(len - 1)
           /\ handleNext(idx, len) \in 0..(len - 1)
           /\ handlePrevious(idx) \in 0..(len - 1)
           /\ (idx < len - 1) => handleNext(idx, len) = idx + 1
           /\ (idx = len - 1) => handleNext(idx, len) = idx
           /\ (idx > 0) => handlePrevious(idx) = idx - 1
           /\ (idx = 0) => handlePrevious(idx) = idx

\* C3 witness: the last position of a list of several questions, reached
\* by next
C3_Witness ==
    /\ Rendered
    /\ currentQuestionIndex = Len(questions) - 1
    /\ currentQuestionIndex = 2

\* a reply on which loadQuestions takes the sample set
fetchFailedOrEmpty(reply) ==
    \/ reply.kind \in {"error", "throw", "reject", "null"}
    \/ reply.kind = "data" /\ Len(reply.data) = 0

\* C4: when the fetch for the active language fails (failure envelope or
\* exception) or returns zero rows, the flow takes the built-in sample set:
\* exactly 3 questions, each in the active language, 3 unset answers and a
\* session whose total_questions is 3.
C4_FallbackToSamples ==
    [][ \A p \in pendingLoads :
        \A reply \in QuestionReplies(p.language, FetchLimit) :
        \A t \in ClockReadings :
            ( /\ LoadResponse(p, reply, t)
              /\ p.language = language
              /\ fetchFailedOrEmpty(reply) )
            => /\ Len(questions') = 3
               /\ \A i \in 1..3 : questions'[i].language = language'
               /\ <<questions'[1].id, questions'[2].id, questions'[3].id>>
                      = <<"1", "2", "3">>
               /\ answers' = <<None, None, None>>
               /\ testSession' # None
               /\ testSession'[1].total_questions = 3
               /\ testSession'[1].language = language'
               /\ ~loading'
      ]_vars

\* C4 witness: the sample set in a language the user changed to
C4_Witness ==
    /\ ~loading
    /\ pendingLoads = {}
    /\ language = "hi"
    /\ Len(questions) = 3
    /\ questions[1].id = "1"
    /\ questions[1].language = "hi"

\* the flow has its questions: not loading, a non-empty list and a session
inProgress == ~loading /\ Len(questions) > 0 /\ testSession # None

C6_SubmitAlwaysNavigates ==
    \A p \in pendingInserts :
        /\ p.score = p.session.score
        /\ p.sessionId = p.session.id
        /\ ENABLED InsertResponse(p, "error")

\* C7: submit can only be triggered at the last position; at every other
\* position the forward action offered is next.
C7_SubmitOnlyAtLast ==
    [][ /\ (nSubmits' # nSubmits) =>
               currentQuestionIndex = Len(questions) - 1
        /\ (currentQuestionIndex' > currentQuestionIndex) =>
               currentQuestionIndex < Len(questions) - 1
        /\ Rendered =>
               /\ submitOffered(currentQuestionIndex, Len(questions))
                      <=> (currentQuestionIndex = Len(questions) - 1)
               /\ nextOffered(currentQuestionIndex, Len(questions))
                      <=> (currentQuestionIndex # Len(questions) - 1)
      ]_vars

\* C7 witness: a submit was triggered on a list of three questions
C7_Witness ==
    /\ nSubmits >= 1
    /\ \E p \in pendingInserts : p.total = 3

\* a step of select: the answers change and no load was answered
selectStep == answers' # answers /\ pendingLoads' = pendingLoads

\* C8: select overwrites the answer at the current position only: the other
\* positions, the position, the question list and the session record keep
\* their values and the array keeps its length.
C8_SelectFrame ==
    [][ selectStep =>
           /\ Len(answers') = Len(answers)
           /\ answers'[currentQuestionIndex + 1] # None
           /\ \A i \in 1..Len(answers) :
                  i # currentQuestionIndex + 1 => answers'[i] = answers[i]
           /\ UNCHANGED <<currentQuestionIndex, questions, testSession>>
      ]_vars

\* C8 witness: an answer at the second position, the first still unset
C8_Witness ==
    /\ Rendered
    /\ Len(answers) = 3
    /\ answers[1] = None
    /\ answers[2] # None

\* C9: each session is persisted once: for every session id at most one
\* insert is ever sent to test_sessions, over any sequence of user events.
C9_SingleInsertPerSession ==
    \A id \in DOMAIN insertCount : insertCount[id] <= 1

----------------------------------------------------------------------------
(* Properties of the data-access layer *)

FetchOps == {"getQuestionsByLanguage", "getImagesByQuestionId"}

\* C10: every data-access operation returns the uniform envelope and lets
\* no exception reach its caller: on a validation, backend or network
\* failure success is false with an error string and data null (an empty
\* list for the two fetches); on success, success is true with the data.
C10_EnvelopeNeverThrows ==
    dalCall.op # "none" =>
        /\ ~dalResult.thrown
        /\ LET r == dalResult.value
               answered == dalReply # None /\ dalReply[1].kind \in {"data", "null"}
           IN /\ r.success <=> answered
              /\ r.success =>
                    /\ r.error = None
                    /\ r.data = IF dalReply[1].kind = "null"
                                THEN (IF dalCall.op \in FetchOps THEN Val(<<>>) ELSE Null)
                                ELSE Val(dalReply[1].data)
              /\ ~r.success =>
                    /\ r.error # None
                    /\ Len(r.error[1]) > 0
                    /\ r.data = IF dalCall.op \in FetchOps THEN Val(<<>>) ELSE Null

\* C10 witness: insertQuestion returned the failure envelope after the
\* request to the backend was rejected by the network
C10_Witness ==
    /\ dalCall.op = "insertQuestion"
    /\ dalReply = Some(ThrowReply)
    /\ ~dalResult.thrown
    /\ ~dalResult.value.success

\* what insertQuestion requires of its argument
questionAcceptable(q) ==
    /\ Len(q.question_text) > 0
    /\ q.options # None
    /\ Len(q.options[1]) > 0
    /\ truthyStr(q.images) => isValidImageUrlCall(q.images[1])

\* C11: insertQuestion succeeds only for a non-empty question_text, non-empty
\* options and, when a non-empty images value is supplied, a valid image
\* URL; otherwise it returns a failure envelope with a descriptive error and
\* sends no insert, and no stored question has a non-empty invalid images
\* value.
C11_InsertQuestionValidates ==
    /\ dalCall.op = "insertQuestion" =>
          /\ dalResult.value.success => questionAcceptable(dalCall.arg)
          /\ dalRequest # None => questionAcceptable(dalCall.arg)
          /\ ~questionAcceptable(dalCall.arg) =>
                /\ dalRequest = None
                /\ ~dalResult.value.success
                /\ dalResult.value.data = Null
                /\ dalResult.value.error \in
                       { Some("question_text and options are required fields"),
                         Some("Invalid image URL format") }
    /\ \A r \in questions_table :
          truthyStr(r.images) => isValidImageUrlCall(r.images[1])

\* C11 witness: a question with text, options and an invalid image URL was
\* refused before any request was sent
C11_Witness ==
    /\ dalCall.op = "insertQuestion"
    /\ dalCall.arg.question_text = "Q"
    /\ dalCall.arg.options = Some(<<"A", "B">>)
    /\ dalCall.arg.images = Some(BadImageUrl)
    /\ dalRequest = None
    /\ dalResult.value.error = Some("Invalid image URL format")

\* the update was refused by the image-URL validation, nothing was sent
refusedByValidation ==
    /\ dalRequest = None
    /\ ~dalResult.value.success
    /\ dalResult.value.data = Null
    /\ dalResult.value.error = Some("Invalid image URL format")

\* the update went to the backend as given
sentToBackend ==
    /\ dalRequest # None
    /\ dalRequest[1].payload = dalCall.arg[2]
    /\ dalResult.value.error # Some("Invalid image URL format")

\* C12 as stated: an update that carries an images value failing
\* isValidImageUrl is refused and nothing is sent; an update that does not
\* carry images is never refused by the validation.
C12_UpdateValidatesCarriedImages ==
    dalCall.op = "updateQuestion" =>
        LET updates == dalCall.arg[2]
            carriesFailing == /\ "images" \in DOMAIN updates
                              /\ updates.images # None
                              /\ ~isValidImageUrlCall(updates.images[1])
        IN /\ carriesFailing => refusedByValidation
           /\ "images" \notin DOMAIN updates => sentToBackend

\* C12 amended: the validation is applied exactly when the update carries a
\* non-empty images value: such a value failing isValidImageUrl is refused
\* and nothing is sent; an update without images, with images null or with
\* images '' is sent to the backend as given.
C12_UpdateValidatesNonEmptyImages ==
    dalCall.op = "updateQuestion" =>
        LET updates == dalCall.arg[2]
            carriesNonEmptyFailing == /\ "images" \in DOMAIN updates
                                      /\ truthyStr(updates.images)
                                      /\ ~isValidImageUrlCall(updates.images[1])
        IN /\ carriesNonEmptyFailing => refusedByValidation
           /\ ~carriesNonEmptyFailing => sentToBackend

\* C12 witness: an update carrying images '' was sent and stored
C12_Witness ==
    /\ dalCall.op = "updateQuestion"
    /\ dalCall.arg[2] = [images |-> Some("")]
    /\ dalRequest # None
    /\ dalResult.value.success
    /\ \E r \in questions_table : r.images = Some("")

\* C13: insertImage called with an empty or missing question_id or image_url
\* returns a failure envelope (success false, data null, a descriptive error)
\* without sending an insert, and the image rows are unchanged.
C13_InsertImageRequiresFields ==
    [][ (/\ dalCall'.op = "insertImage"
         /\ \/ ~truthyStr(dalCall'.arg.question_id)
            \/ ~truthyStr(dalCall'.arg.image_url))
        => /\ dalRequest' = None
           /\ ~dalResult'.thrown
           /\ ~dalResult'.value.success
           /\ dalResult'.value.data = Null
           /\ dalResult'.value.error =
                  Some("question_id and image_url are required fields")
           /\ images_table' = images_table
      ]_vars

\* C13 witness: with an image row stored, an insert without image_url was
\* refused
C13_Witness ==
    /\ images_table # {}
    /\ dalCall.op = "insertImage"
    /\ dalCall.arg.question_id = Some("q1")
    /\ dalCall.arg.image_url = None
    /\ dalRequest = None
    /\ ~dalResult.value.success

\* C14: insertImage sends the caller's image_alt, image_type and
\* display_order unchanged when they are supplied and uses the defaults '',
\* "general" and 1 only for the fields the caller did not supply; on success
\* it returns the persisted row.
C14_InsertImageKeepsSuppliedFields ==
    (dalCall.op = "insertImage" /\ dalRequest # None) =>
        LET imageData == dalCall.arg
            sent == dalRequest[1].payload
        IN /\ sent.image_alt = IF imageData.image_alt # None
                               THEN imageData.image_alt[1] ELSE ""
           /\ sent.image_type = IF imageData.image_type # None
                                THEN imageData.image_type[1] ELSE "general"
           /\ sent.display_order = IF imageData.display_order # None
                                   THEN imageData.display_order[1] ELSE 1
           /\ dalResult.value.success =>
                 /\ dalResult.value.data.v \in images_table
                 /\ \A f \in DOMAIN sent : dalResult.value.data.v[f] = sent[f]

\* the rows a list holds
rowsOf(list) == { list[i] : i \in 1..Len(list) }

\* C15: with no write in between, every fetch of the images of a question
\* id returns the same set of rows, exactly the stored rows of that question
\* id, in ascending display_order, whatever was fetched before; a fetch the
\* backend did not answer is a failure envelope, never a different set.
C15_ImagesFetchIdempotent ==
    [][ dalCall'.op = "getImagesByQuestionId" =>
          /\ images_table' = images_table
          /\ dalResult'.value.success =>
                LET rows == dalResult'.value.data.v
                    matching == {r \in images_table : r.question_id = dalCall'.arg}
                IN /\ rowsOf(rows) = matching
                   /\ Len(rows) = Cardinality(matching)
                   /\ \A i, j \in 1..Len(rows) : i < j =>
                          rows[i].display_order <= rows[j].display_order
                   /\ (/\ dalCall.op = "getImagesByQuestionId"
                       /\ dalCall.arg = dalCall'.arg
                       /\ dalResult.value.success)
                      => rowsOf(dalResult.value.data.v) = rowsOf(rows)
          /\ ~dalResult'.value.success =>
                dalReply'[1].kind \in {"error", "throw", "reject"}
      ]_vars

\* C15 witness: a fetch returned two rows of different display_order
C15_Witness ==
    /\ dalCall.op = "getImagesByQuestionId"
    /\ dalResult.value.success
    /\ Len(dalResult.value.data.v) = 2
    /\ dalResult.value.data.v[1].display_order < dalResult.value.data.v[2].display_order

----------------------------------------------------------------------------
(* Properties of the image URL validation *)

\* C16: isValidImageUrl(s) is true exactly when s parses as a URL with
\* protocol http or https and the path ends in one of the image file
\* extensions, or the hostname is one of the allow-listed hosts, or the path
\* contains "/images/", or the query has a w or width parameter; it is false
\* for the empty string, an unparseable string and any other protocol.
C16_IsValidImageUrlAsSpecified ==
    urlCall.op = "isValidImageUrl" =>
        LET urlObj == parseURL(urlCall.url)
            pathname == toLowerCase(urlObj.pathname)
            endsIn(ext) == /\ Len(ext) <= Len(pathname)
                           /\ SubSeq(pathname, Len(pathname) - Len(ext) + 1,
                                     Len(pathname)) = ext
        IN urlResult <=>
              /\ Len(urlCall.url) > 0
              /\ urlObj.ok
              /\ urlObj.protocol \in {"http:", "https:"}
              /\ \/ \E e \in 1..Len(imageExtensions) : endsIn(imageExtensions[e])
                 \/ \E h \in 1..Len(imageHosts) : urlObj.hostname = imageHosts[h]
                 \/ Includes(pathname, "/images/")
                 \/ searchParamsHas(urlObj.search, "w")
                 \/ searchParamsHas(urlObj.search, "width")

\* C17: validateImageUrl follows the two-stage decision for every network
\* outcome: a URL stage 1 rejects is rejected with no request; otherwise a
\* HEAD request is made and the URL is accepted iff the response is
\* successful and its content type starts with "image/" or its status is
\* 200; when the HEAD request fails a GET of the first 1KB is made and the
\* URL is accepted iff that response is successful; when both fail the URL
\* is accepted.
C17_ValidateImageUrlTwoStage ==
    urlCall.op = "validateImageUrl" =>
        IF ~isValidImageUrlCall(urlCall.url)
        THEN urlRequests = <<>> /\ ~urlResult
        ELSE /\ Len(urlRequests) >= 1
             /\ urlRequests[1].method = "HEAD"
             /\ urlRequests[1].url = urlCall.url
             /\ LET head == urlRequests[1].outcome
                IN IF head.kind = "response"
                   THEN /\ Len(urlRequests) = 1
                        /\ urlResult <=>
                              /\ head.status \in 200..299
                              /\ \/ head.contentType = Some("image/png")
                                 \/ head.status = 200
                   ELSE /\ Len(urlRequests) = 2
                        /\ urlRequests[2].method = "GET"
                        /\ urlRequests[2].url = urlCall.url
                        /\ urlRequests[2].range = Some("bytes=0-1023")
                        /\ LET get == urlRequests[2].outcome
                           IN IF get.kind = "response"
                              THEN urlResult <=> get.status \in 200..299
                              ELSE urlResult

\* C17 witness: the HEAD and the GET request both failed and the URL was
\* accepted
C17_Witness ==
    /\ urlCall.op = "validateImageUrl"
    /\ Len(urlRequests) = 2
    /\ urlRequests[1].outcome = FetchThrows
    /\ urlRequests[2].outcome = FetchThrows
    /\ urlResult

-----------------------------------------------------------------------------
(* Properties of the results screen *)

\* C18: whenever the results view is shown, its percentage is the score
\* over the total times 100 rounded to the nearest integer (0 when the
\* total is 0), the band is excellent from 80, good from 60 up to 79 and
\* keep practicing below, and the colour and the message shown are both the
\* ones of that band; answers [1, 0, 2] against correct answers [1, 1, 2]
\* give score 2, percentage 67 and band good.
C18_ResultsPercentageAndBand ==
    LET bandOf(p) == IF p >= 80 THEN "excellent"
                     ELSE IF p >= 60 /\ p < 80 THEN "good"
                     ELSE "keep practicing"
        colourOf == [b \in {"excellent", "good", "keep practicing"} |->
                        CASE b = "excellent" -> "#16A34A"
                          [] b = "good" -> "#D97706"
                          [] b = "keep practicing" -> "#DC2626"]
        messageOf(b, lang) ==
            CASE lang = "en" /\ b = "excellent" ->
                     "Excellent! You are ready for the license test."
              [] lang = "en" /\ b = "good" -> "Good! Practice a bit more."
              [] lang = "en" /\ b = "keep practicing" ->
                     "Keep practicing! You can do better."
              [] OTHER -> lang \o ": " \o b
        s == paramInt(params.score)
        t == paramInt(params.total)
        p == percentage(s, t)
        scenarioScore == reduceScore(<<Some(1), Some(0), Some(2)>>,
                                     sampleQuestions("en"), 0, 0)
    IN /\ resultsMounted =>
           /\ IF t = 0 THEN p = 0
              ELSE 2 * p * t <= 200 * s + t /\ 200 * s + t < 2 * (p + 1) * t
           /\ getScoreColor(p) = colourOf[bandOf(p)]
           /\ getScoreMessage(p, language) = messageOf(bandOf(p), language)
       /\ scenarioScore = 2
       /\ percentage(scenarioScore, 3) = 67
       /\ bandOf(67) = "good"
       /\ getScoreColor(percentage(scenarioScore, 3)) = colourOf["good"]

\* C18 witness: a results view opened with score 2 of 3 shows 67 in the
\* colour of the good band.
C18_Witness ==
    /\ resultsMounted
    /\ params = [score |-> Some("2"), total |-> Some("3")]
    /\ percentage(paramInt(params.score), paramInt(params.total)) = 67
    /\ getScoreColor(67) = "#D97706"

\* C19: in every state in which the results view is shown, the history it
\* holds consists of completed sessions only, all in the active language,
\* newest first, at most 10 of them; also after the active language has
\* changed or a further session has been stored.
C19_HistoryOfActiveLanguage ==
    resultsMounted =>
        /\ \A i \in 1..Len(testHistory) :
               /\ testHistory[i].completed_at # None
               /\ testHistory[i].language = language
        /\ \A i, j \in 1..Len(testHistory) :
               i < j => testHistory[i].created_at >= testHistory[j].created_at
        /\ Len(testHistory) <= 10

-----------------------------------------------------------------------------
(* Properties of the language provider *)

\* C20: in every reachable state the in-memory language is one of en, hi,
\* tel; it is en until a load or a selection has set it; when the load ends,
\* the language is unchanged if the read failed, nothing was stored or the
\* stored value is not one of the three codes; and every value the provider
\* passes to setItem for selectedLanguage is one of the three codes.
C20_LanguageStaysInSet ==
    /\ [](language \in {"en", "hi", "tel"})
    /\ []((getItemCall = "pending" /\ nSetLanguage = 0) => language = "en")
    /\ [][(getItemCall = "pending" /\ getItemCall' # "pending"
            /\ ( \/ getItemCall' = "rejected"
                 \/ getItemValue[1] = None
                 \/ getItemValue[1][1] \notin {"en", "hi", "tel"} ))
           => language' = language]_vars
    /\ [](setItemLog \subseteq {"en", "hi", "tel"})

\* C20 witness: the store held a value outside the set, the load has read
\* it, and the language is still en.
C20_Witness ==
    /\ storage = Some("fr")
    /\ getItemCall = "resolved"
    /\ nSetLanguage = 0
    /\ language = "en"

\* C21: after any sequence of language selections, once every write to the
\* preference store has completed successfully, the persisted value and
\* the in-memory language both equal the most recent selection, in
\* whichever order the writes completed.
C21_LastSelectionWins ==
    LET lastSelection == CHOOSE d \in setItemDone : d.call.n = nSetLanguage
    IN ( /\ isMounted
         /\ nSetLanguage > 0
         /\ pendingSetItem = {}
         /\ \A d \in setItemDone : d.outcome = "resolved" )
       => /\ storage = Some(lastSelection.call.value)
          /\ language = lastSelection.call.value

\* C22: once the provider has unmounted, no completion of a read or a write
\* changes the in-memory language: the language changes only in steps taken
\* while the mounted flag is set, and the flag is never set again after the
\* unmount has cleared it.
C22_NoUpdateAfterUnmount ==
    /\ [][~isMounted => language' = language]_vars
    /\ [][~isMounted => ~isMounted']_vars
    /\ [][language' # language => isMounted /\ isMounted']_vars

\* C22 witness: after the unmount, the read resolved with a stored language
\* code and a write resolved as well, and the language is still en.
C22_Witness ==
    /\ ~isMounted
    /\ getItemCall = "resolved" /\ getItemValue = Some(Some("hi"))
    /\ \E d \in setItemDone : d.outcome = "resolved" /\ d.call.value = "tel"
    /\ language = "en"

\* C30: a single language selection made while the provider's initial read
\* is still in flight is not overwritten by that read: once the read has
\* completed and the write has resolved, the in-memory language of the
\* mounted provider equals the selection and equals the persisted value.
C30_SelectionSurvivesInitialRead ==
    \A d \in setItemDone :
        ( /\ isMounted
          /\ nSetLanguage = 1
          /\ d.call.duringLoad
          /\ d.outcome = "resolved"
          /\ getItemCall # "pending" )
        => /\ language = d.call.value
           /\ storage = Some(language)

-----------------------------------------------------------------------------
(* Properties of the rows the data-access layer writes *)

\* C23: every question row written by insertQuestion or updateQuestion has
\* a correct_answer that is an index of its options,
\* 0 <= correct_answer < options.length, and a language that is one of
\* en, hi, tel.
C23_WrittenQuestionRowsValid ==
    ( /\ dalCall.op \in {"insertQuestion", "updateQuestion"}
      /\ dalReply # None
      /\ dalReply[1].kind = "data" )
    => LET row == dalReply[1].data
       IN /\ row \in questions_table
          /\ 0 <= row.correct_answer
          /\ row.correct_answer < Len(row.options)
          /\ row.language \in {"en", "hi", "tel"}

-----------------------------------------------------------------------------
(* Properties of the question form *)

\* C24: after any sequence of addOption, removeOption, updateOption and
\* set-correct-answer events the form has between 2 and 6 options and
\* 0 <= correctAnswer < options.length; addOption at 6 options and
\* removeOption at 2 options change nothing.
C24_OptionsAndCorrectAnswerInRange ==
    /\ 2 <= Len(options) /\ Len(options) <= 6
    /\ 0 <= correctAnswer /\ correctAnswer < Len(options)
    /\ Len(options) = 6 => addOption(options) = options
    /\ Len(options) = 2 =>
           \A index \in 0..1 :
               removeOption(options, correctAnswer, index) =
                   [options |-> options, correctAnswer |-> correctAnswer]

\* C24 witness: the form was grown to 6 options with the last one marked
\* correct and then cut down to 2 options; the last one is marked correct.
C24_Witness ==
    /\ options = <<"A ", "A ">>
    /\ correctAnswer = 1
    /\ questionText = "Q "
    /\ formRequest # None
    /\ formRequest[1].correct_answer = 5
    /\ Len(formRequest[1].options[1]) = 6

\* C28: removing an option other than the one marked correct leaves the
\* same option text marked correct, wherever the removed option stood.
C28_RemovalKeepsCorrectOption ==
    [][\A index \in 0..5 :
          ( /\ Len(options) > 2
            /\ index < Len(options)
            /\ index # correctAnswer
            /\ Len(options') < Len(options)
            /\ options' = removeOption(options, correctAnswer, index).options )
          => options'[correctAnswer' + 1] = options[correctAnswer + 1]]_vars

-----------------------------------------------------------------------------
(* Further properties of the test-taking flow *)

\* C25: whenever the test screen is not loading and holds a non-empty
\* question list, 0 <= currentQuestionIndex <= questions.length - 1, also
\* after a language change has loaded a shorter list; the screen never
\* reads a question at a position outside the list.
C25_IndexWithinQuestions ==
    /\ (~loading /\ Len(questions) > 0) =>
           (0 <= currentQuestionIndex /\ currentQuestionIndex <= Len(questions) - 1)
    /\ ~crashed

\* C26: once no question load is in flight, every question the test screen
\* holds and the language of its session are of the active language, in
\* whichever order the responses of two overlapping loads arrived.
C26_QuestionsOfActiveLanguage ==
    (pendingLoads = {} /\ ~crashed) =>
        /\ \A i \in 1..Len(questions) : questions[i].language = language
        /\ testSession # None => testSession[1].language = language

\* C27: when a submit hands its result to the results view, a row of
\* test_sessions with that session id, if there is one, holds the score and
\* the answers of that submit.
C27_PersistedMatchesShownResult ==
    [][\A p \in pendingInserts :
          (p \notin pendingInserts' /\ navStack' = <<resultsParams(p)>> \o navStack)
          => \A r \in test_sessions' :
                 r.id = p.sessionId =>
                     r.score = p.score /\ r.answers = p.session.answers]_vars

-----------------------------------------------------------------------------
(* Properties of the question image *)

\* C29: whenever the mounted component is given a valid http/https image
\* URL, it renders an Image element for that URL, so the load is attempted
\* and can succeed, unless the load of that same URL has failed; a failure
\* of the image of a question shown before does not stand in the way.
C29_ErrorDoesNotCarryOver ==
    (imageMounted /\ trim(imageUrlProp) # "" /\ isValidUrl(trim(imageUrlProp)))
    => \/ imageElement # None /\ imageElement[1].uri = trim(imageUrlProp)
       \/ imageFailed = Some(trim(imageUrlProp))
====
